---------------------------- MODULE Spec2Model ----------------------------
(***************************************************************************)
(* Model of the quadtree visualiser (src/src/main.rs): the QuadTree node   *)
(* (new / insert / contains / query) and the frame loop of main            *)
(* (generate_random_points, move_points, build_quadtree, check_overlap).   *)
(*                                                                         *)
(* Coordinates are f32 in the program.  Here they are integers counted in  *)
(* a unit small enough that every halving done by a subdivision the model  *)
(* can reach is exact, as it is for f32 (dividing by 2.0 only lowers the   *)
(* exponent).  Rounding of f32 additions is not modelled.                  *)
(***************************************************************************)
EXTENDS Integers, Sequences, FiniteSets, TLC

VARIABLES
    tree,          \* the QuadTree under test: path of child names -> node
    edgeInclusive, \* macroquad's Rect::contains: right/bottom edge counted or not
    inserted,      \* history: the points passed to insert so far, in order
    prevTree,      \* history: the tree as it was before the last insert
    lastOp,        \* history: the last new/insert call and the branch it took
    range,         \* the Circle of the query made since then (NoRange: none)
    res,           \* the Vec<Particle> that query returned
    pc,            \* main: position in the body of the frame loop
    points,        \* main: the Vec<Particle> `points`
    quadtree,      \* main: the local `quadtree` of the current frame
    overlaps,      \* history: the query result check_overlap saw for each index
    steps,         \* history: the steps the current frame has run so far
    snapshot       \* history: `points` as move_points left them this frame

vars == <<tree, edgeInclusive, inserted, prevTree, lastOp, range, res,
          pc, points, quadtree, overlaps, steps, snapshot>>

apiVars == <<tree, inserted, prevTree, lastOp, range, res>>
mainVars == <<pc, points, quadtree, overlaps, steps, snapshot>>

---------------------------------------------------------------------------
(* Bounds of the model *)

\* largest capacity handed to QuadTree::new by the tree-level specification
MaxCapacity == 2
\* number of insert calls the tree-level specification makes
MaxInserts == 4
\* number of particles of the frame loop (NUMBER_OF_POINTS, scaled down)
NUMBER_OF_POINTS == 3
\* node capacity of the frame loop (QUADTREE_CAPACITY, scaled down)
QUADTREE_CAPACITY == 2

\* The length unit: no reachable node is deeper than the number of inserts
\* made into its tree, so a boundary of 4 * Unit halves exactly at every depth.
Unit == 2 ^ (MaxInserts + NUMBER_OF_POINTS)

\* screen_width() / screen_height(): the window is square (1024 x 1024)
ScreenWidth == 4 * Unit
ScreenHeight == 4 * Unit
\* POINT_RADIUS and RANDOM_WALK_DISTANCE keep their ratio 5 : 10
POINT_RADIUS == Unit
RANDOM_WALK_DISTANCE == 2 * Unit

---------------------------------------------------------------------------
(* Geometry: macroquad's Rect, Circle and Vec2 as the program uses them *)

Rect(x, y, w, h) == [x |-> x, y |-> y, w |-> w, h |-> h]

Circle(x, y, r) == [x |-> x, y |-> y, r |-> r]

Particle(x, y, color, radius) ==
    [pos |-> <<x, y>>, color |-> color, radius |-> radius]

Abs(n) == IF n < 0 THEN -n ELSE n

\* Rect::contains(point): left and top edges are inside; the right and the
\* bottom edge are inside or not depending on the macroquad version.
RectContains(b, pos, incl) ==
    /\ pos[1] >= b.x
    /\ pos[2] >= b.y
    /\ IF incl THEN pos[1] <= b.x + b.w ELSE pos[1] < b.x + b.w
    /\ IF incl THEN pos[2] <= b.y + b.h ELSE pos[2] < b.y + b.h

\* Circle::contains(pos): distance(pos, centre) < r
CircleContains(c, pos) ==
    /\ c.r > 0
    /\ (pos[1] - c.x) * (pos[1] - c.x) + (pos[2] - c.y) * (pos[2] - c.y)
         < c.r * c.r

\* Circle::overlaps_rect(rect)
OverlapsRect(c, b) ==
    LET dist_x == Abs(c.x - (b.x + b.w \div 2))
        dist_y == Abs(c.y - (b.y + b.h \div 2))
        lhs == dist_x - b.w \div 2
        rhs == dist_y - b.h \div 2
    IN  IF dist_x > b.w \div 2 + c.r \/ dist_y > b.h \div 2 + c.r THEN FALSE
        ELSE IF dist_x <= b.w \div 2 \/ dist_y <= b.h \div 2 THEN TRUE
        ELSE lhs * lhs + rhs * rhs <= c.r * c.r

---------------------------------------------------------------------------
(* QuadTree *)

NoTree == << >>
Root == << >>

northeast(self) == Append(self, "northeast")
northwest(self) == Append(self, "northwest")
southeast(self) == Append(self, "southeast")
southwest(self) == Append(self, "southwest")

\* QuadTree::new: an empty leaf, whatever the capacity
NewNode(capacity, boundary) ==
    [capacity |-> capacity, is_full |-> FALSE, boundary |-> boundary,
     data |-> << >>]

\* the four rectangles insert hands to QuadTree::new when it subdivides
NortheastRect(b) == Rect(b.x + b.w \div 2, b.y, b.w \div 2, b.h \div 2)
NorthwestRect(b) == Rect(b.x, b.y, b.w \div 2, b.h \div 2)
SoutheastRect_SameAsNortheast(b) ==
    Rect(b.x + b.w \div 2, b.y, b.w \div 2, b.h \div 2)
SoutheastRect(b) ==
    Rect(b.x + b.w \div 2, b.y + b.h \div 2, b.w \div 2, b.h \div 2)
SouthwestRect(b) == Rect(b.x, b.y + b.h \div 2, b.w \div 2, b.h \div 2)

\* QuadTree::contains
contains(t, self, point, incl) ==
    RectContains(t[self].boundary, point.pos, incl)

\* what the subdivide branch of insert does to the node itself: is_full is
\* set, data is left as it is
MarkFull_ClearData(n) == [n EXCEPT !.is_full = TRUE, !.data = << >>]
MarkFull(n) == [n EXCEPT !.is_full = TRUE]

\* the leaf-at-capacity branch of insert: four empty children, is_full set,
\* the point not stored
Subdivide(t, self) ==
    LET n == t[self]
        b == n.boundary
        kids == {northeast(self), northwest(self), southeast(self),
                 southwest(self)}
    IN  [p \in DOMAIN t \cup kids |->
            IF p = self THEN MarkFull(n)
            ELSE IF p = northeast(self) THEN NewNode(n.capacity, NortheastRect(b))
            ELSE IF p = northwest(self) THEN NewNode(n.capacity, NorthwestRect(b))
            ELSE IF p = southeast(self) THEN NewNode(n.capacity, SoutheastRect(b))
            ELSE IF p = southwest(self) THEN NewNode(n.capacity, SouthwestRect(b))
            ELSE t[p]]

\* the test that sends insert into its subdivide branch
AtCapacity_OneEarly(n) == Len(n.data) + 1 >= n.capacity
AtCapacity(n) == Len(n.data) >= n.capacity

\* the last statement of insert
PushPoint(t, self, point) == [t EXCEPT ![self].data = Append(@, point)]

\* QuadTree::insert
RECURSIVE insert(_, _, _, _)
insert(t, self, point, incl) ==
    IF t[self].is_full THEN
        IF northeast(self) \in DOMAIN t /\ contains(t, northeast(self), point, incl)
        THEN insert(t, northeast(self), point, incl)
        ELSE IF northwest(self) \in DOMAIN t /\ contains(t, northwest(self), point, incl)
        THEN insert(t, northwest(self), point, incl)
        ELSE IF southeast(self) \in DOMAIN t /\ contains(t, southeast(self), point, incl)
        THEN insert(t, southeast(self), point, incl)
        ELSE IF southwest(self) \in DOMAIN t /\ contains(t, southwest(self), point, incl)
        THEN insert(t, southwest(self), point, incl)
        ELSE t
    ELSE IF AtCapacity(t[self]) THEN Subdivide(t, self)
    ELSE PushPoint(t, self, point)

\* the node an insert of `point` ends in, and the branch it takes there
RECURSIVE InsertTarget(_, _, _, _)
InsertTarget(t, self, point, incl) ==
    IF t[self].is_full THEN
        IF northeast(self) \in DOMAIN t /\ contains(t, northeast(self), point, incl)
        THEN InsertTarget(t, northeast(self), point, incl)
        ELSE IF northwest(self) \in DOMAIN t /\ contains(t, northwest(self), point, incl)
        THEN InsertTarget(t, northwest(self), point, incl)
        ELSE IF southeast(self) \in DOMAIN t /\ contains(t, southeast(self), point, incl)
        THEN InsertTarget(t, southeast(self), point, incl)
        ELSE IF southwest(self) \in DOMAIN t /\ contains(t, southwest(self), point, incl)
        THEN InsertTarget(t, southwest(self), point, incl)
        ELSE [node |-> self, branch |-> "no_child"]
    ELSE IF AtCapacity(t[self]) THEN [node |-> self, branch |-> "subdivide"]
    ELSE [node |-> self, branch |-> "push"]

\* the loop of query over the node's own data
ScanData_NoFilter(data, c) == data
RECURSIVE ScanData(_, _)
ScanData(data, c) ==
    IF data = << >> THEN << >>
    ELSE IF CircleContains(c, Head(data).pos)
         THEN <<Head(data)>> \o ScanData(Tail(data), c)
         ELSE ScanData(Tail(data), c)

\* the part of query that reads the node's own data, subdivided or not
OwnItems_LeafOnly(n, c) == IF n.is_full THEN << >> ELSE ScanData(n.data, c)
OwnItems(n, c) == ScanData(n.data, c)

\* QuadTree::query: own data, then northwest, northeast, southwest, southeast
RECURSIVE query(_, _, _)
query(t, self, c) ==
    IF ~OverlapsRect(c, t[self].boundary) THEN << >>
    ELSE OwnItems(t[self], c)
         \o (IF northwest(self) \in DOMAIN t THEN query(t, northwest(self), c) ELSE << >>)
         \o (IF northeast(self) \in DOMAIN t THEN query(t, northeast(self), c) ELSE << >>)
         \o (IF southwest(self) \in DOMAIN t THEN query(t, southwest(self), c) ELSE << >>)
         \o (IF southeast(self) \in DOMAIN t THEN query(t, southeast(self), c) ELSE << >>)

---------------------------------------------------------------------------
(* Inputs of the tree-level specification *)

RootBoundary == Rect(0, 0, ScreenWidth, ScreenHeight)

\* positions handed to insert: outside the root, inside two quadrants, the
\* centre (on both dividing lines) and the far corner (on the right/bottom edge)
TestPositions ==
    { <<0 - Unit, Unit>>,
      <<Unit, Unit>>, <<3 * Unit, Unit>>,
      <<2 * Unit, 2 * Unit>>,
      <<ScreenWidth, ScreenHeight>> }

TestPoints == { Particle(p[1], p[2], "RED", POINT_RADIUS) : p \in TestPositions }

\* circles handed to query: one covering the root, smaller ones inside it,
\* one around the outside position, one far away
WholeRoot == Circle(2 * Unit, 2 * Unit, 4 * Unit)
TestRanges ==
    { WholeRoot,
      Circle(2 * Unit, 2 * Unit, 2 * Unit),
      Circle(Unit, Unit, Unit),
      Circle(0 - Unit, Unit, Unit),
      Circle(0 - 3 * Unit, 0 - 3 * Unit, Unit) }

NoRange == Circle(0, 0, 0)

---------------------------------------------------------------------------
(* Tree-level specification: new, insert and query called in any order *)

MainIdle ==
    /\ pc = 0
    /\ points = << >>
    /\ quadtree = NoTree
    /\ overlaps = << >>
    /\ steps = << >>
    /\ snapshot = << >>

Init ==
    /\ tree = NoTree
    /\ edgeInclusive \in BOOLEAN
    /\ inserted = << >>
    /\ prevTree = NoTree
    /\ lastOp = "none"
    /\ range = NoRange
    /\ res = << >>
    /\ MainIdle

\* QuadTree::new(capacity, boundary)
New ==
    /\ tree = NoTree
    /\ \E capacity \in 0 .. MaxCapacity :
          tree' = (Root :> NewNode(capacity, RootBoundary))
    /\ lastOp' = "new"
    /\ UNCHANGED <<edgeInclusive, inserted, prevTree, range, res>>
    /\ UNCHANGED mainVars

\* tree.insert(point)
Insert ==
    /\ tree # NoTree
    /\ Len(inserted) < MaxInserts
    /\ \E point \in TestPoints :
          /\ tree' = insert(tree, Root, point, edgeInclusive)
          /\ inserted' = Append(inserted, point)
          /\ lastOp' = InsertTarget(tree, Root, point, edgeInclusive).branch
    /\ prevTree' = tree
    /\ range' = NoRange
    /\ res' = << >>
    /\ UNCHANGED edgeInclusive
    /\ UNCHANGED mainVars

\* tree.query(range)
Query ==
    /\ tree # NoTree
    /\ range = NoRange
    /\ \E c \in TestRanges :
          /\ range' = c
          /\ res' = query(tree, Root, c)
    /\ UNCHANGED <<tree, edgeInclusive, inserted, prevTree, lastOp>>
    /\ UNCHANGED mainVars

Next == New \/ Insert \/ Query

Spec == Init /\ [][Next]_vars

---------------------------------------------------------------------------
(* The frame loop of main *)

\* samples of rng.gen_range(-RANDOM_WALK_DISTANCE..RANDOM_WALK_DISTANCE)
WalkDeltas == { 0 - RANDOM_WALK_DISTANCE, RANDOM_WALK_DISTANCE - Unit }

\* samples of (angle.cos(), angle.sin()) for angle in 0.0..TAU
Directions == { <<1, 0>>, <<0, 1>>, <<0 - 1, 0>>, <<0, 0 - 1>> }

\* the position of the k-th particle generate_random_points pushes, given
\* the values the generator returns (both coordinates wrap at screen_width;
\* the values drawn after the last push are not used)
RECURSIVE WalkPos(_, _, _)
WalkPos(k, dxs, dys) ==
    IF k = 1 THEN <<ScreenWidth \div 2, ScreenHeight \div 2>>
    ELSE LET prev == WalkPos(k - 1, dxs, dys)
         IN  << (prev[1] + dxs[k - 1] + ScreenWidth) % ScreenWidth,
                (prev[2] + dys[k - 1] + ScreenWidth) % ScreenWidth >>

\* generate_random_points(number_of_points)
generate_random_points(number_of_points, dxs, dys) ==
    [k \in 1 .. number_of_points |->
        LET pos == WalkPos(k, dxs, dys)
        IN  Particle(pos[1], pos[2], "RED", POINT_RADIUS)]

GeneratedPoints ==
    { generate_random_points(NUMBER_OF_POINTS, dxs, dys) :
        dxs \in [1 .. NUMBER_OF_POINTS - 1 -> WalkDeltas],
        dys \in [1 .. NUMBER_OF_POINTS - 1 -> WalkDeltas] }

\* move_points: every particle moves RANDOM_WALK_DISTANCE in its direction
\* and wraps around the screen
move_points(pts, dirs) ==
    [k \in 1 .. Len(pts) |->
        [pts[k] EXCEPT !.pos =
            << (pts[k].pos[1] + RANDOM_WALK_DISTANCE * dirs[k][1] + ScreenWidth)
                  % ScreenWidth,
               (pts[k].pos[2] + RANDOM_WALK_DISTANCE * dirs[k][2] + ScreenHeight)
                  % ScreenHeight >>]]

\* the tree build_quadtree starts from
FreshRoot ==
    (Root :> NewNode(QUADTREE_CAPACITY, Rect(0, 0, ScreenWidth, ScreenHeight)))

\* the loop of build_quadtree from index on
RECURSIVE InsertAll(_, _, _, _)
InsertAll(t, pts, index, incl) ==
    IF index > Len(pts) THEN t
    ELSE InsertAll(insert(t, Root, pts[index], incl), pts, index + 1, incl)

\* build_quadtree(points)
build_quadtree(pts, incl) == InsertAll(FreshRoot, pts, 1, incl)

\* the query check_overlap makes for points[index]
OverlapQuery(t, pts, index) ==
    query(t, Root, Circle(pts[index].pos[1], pts[index].pos[2],
                          2 * pts[index].radius))

\* check_overlap(points, quadtree): the new points
check_overlap(pts, t) ==
    [index \in 1 .. Len(pts) |->
        [pts[index] EXCEPT !.color =
            IF Len(OverlapQuery(t, pts, index)) > 1 THEN "BLUE" ELSE "RED"]]

\* the body of the loop of main, in program order
LoopOrder_MoveAfterBuild ==
    <<"reset", "build_quadtree", "move_points", "check_overlap", "next_frame">>
LoopOrder ==
    <<"reset", "move_points", "build_quadtree", "check_overlap", "next_frame">>

At(step) == pc \in 1 .. Len(LoopOrder) /\ LoopOrder[pc] = step

Advance(step) ==
    /\ pc' = IF pc = Len(LoopOrder) THEN 1 ELSE pc + 1
    /\ steps' = IF pc = Len(LoopOrder) THEN << >> ELSE Append(steps, step)

InitMain ==
    /\ tree = NoTree
    /\ edgeInclusive \in BOOLEAN
    /\ inserted = << >>
    /\ prevTree = NoTree
    /\ lastOp = "none"
    /\ range = NoRange
    /\ res = << >>
    /\ pc = 1
    /\ points \in GeneratedPoints
    /\ quadtree = NoTree
    /\ overlaps = << >>
    /\ steps = << >>
    /\ snapshot = << >>

\* if is_key_pressed(KeyCode::Space) { points = generate_random_points(..) }
Reset ==
    /\ At("reset")
    /\ \E pressed \in BOOLEAN :
          IF pressed THEN points' \in GeneratedPoints ELSE points' = points
    /\ Advance("reset")
    /\ UNCHANGED <<quadtree, overlaps, snapshot, edgeInclusive>>
    /\ UNCHANGED apiVars

\* move_points(&mut points)
MovePoints ==
    /\ At("move_points")
    /\ \E dirs \in [1 .. Len(points) -> Directions] :
          points' = move_points(points, dirs)
    /\ snapshot' = points'
    /\ Advance("move_points")
    /\ UNCHANGED <<quadtree, overlaps, edgeInclusive>>
    /\ UNCHANGED apiVars

\* let mut quadtree = build_quadtree(&mut points); quadtree.display(..) only
\* reads the tree
BuildQuadtree ==
    /\ At("build_quadtree")
    /\ quadtree' = build_quadtree(points, edgeInclusive)
    /\ Advance("build_quadtree")
    /\ UNCHANGED <<points, overlaps, snapshot, edgeInclusive>>
    /\ UNCHANGED apiVars

\* check_overlap(&mut points, quadtree): the tree is moved into the call and
\* dropped when it returns
CheckOverlap ==
    /\ At("check_overlap")
    /\ overlaps' = [index \in 1 .. Len(points) |->
                       OverlapQuery(quadtree, points, index)]
    /\ points' = check_overlap(points, quadtree)
    /\ quadtree' = NoTree
    /\ Advance("check_overlap")
    /\ UNCHANGED <<snapshot, edgeInclusive>>
    /\ UNCHANGED apiVars

\* draw_points ... next_frame().await
NextFrame ==
    /\ At("next_frame")
    /\ overlaps' = << >>
    /\ snapshot' = << >>
    /\ Advance("next_frame")
    /\ UNCHANGED <<points, quadtree, edgeInclusive>>
    /\ UNCHANGED apiVars

NextMain == Reset \/ MovePoints \/ BuildQuadtree \/ CheckOverlap \/ NextFrame

SpecMain == InitMain /\ [][NextMain]_vars

---------------------------------------------------------------------------
(* Vocabulary of the properties *)

RECURSIVE Count(_, _)
Count(seq, e) ==
    IF seq = << >> THEN 0
    ELSE (IF Head(seq) = e THEN 1 ELSE 0) + Count(Tail(seq), e)

Elems(seq) == { seq[k] : k \in 1 .. Len(seq) }

SameMultiset(s, t) ==
    \A e \in Elems(s) \cup Elems(t) : Count(s, e) = Count(t, e)

RECURSIVE SumLen(_, _)
SumLen(t, nodes) ==
    IF nodes = {} THEN 0
    ELSE LET n == CHOOSE m \in nodes : TRUE
         IN  Len(t[n].data) + SumLen(t, nodes \ {n})

\* number of points stored in the whole tree
StoredCount(t) == SumLen(t, DOMAIN t)

Children(self) ==
    {northeast(self), northwest(self), southeast(self), southwest(self)}

IsEmptyLeaf(t, n) ==
    /\ n \in DOMAIN t
    /\ t[n].data = << >>
    /\ ~t[n].is_full
    /\ Children(n) \cap DOMAIN t = {}

Corners(b) ==
    { <<b.x, b.y>>, <<b.x + b.w, b.y>>, <<b.x, b.y + b.h>>,
      <<b.x + b.w, b.y + b.h>> }

\* the circle covers the whole (closed) rectangle: a disc is convex, so it
\* is enough that it contains the four corners
Covers(c, b) == \A p \in Corners(b) : CircleContains(c, p)

Min(a, b) == IF a < b THEN a ELSE b
Max(a, b) == IF a > b THEN a ELSE b

Area(b) == b.w * b.h

IntersectionArea(a, b) ==
    Max(0, Min(a.x + a.w, b.x + b.w) - Max(a.x, b.x))
      * Max(0, Min(a.y + a.h, b.y + b.h) - Max(a.y, b.y))

\* positions around and inside a rectangle: its edges, its dividing lines and
\* their neighbours
SampleCoords(lo, len) ==
    { lo - 1, lo, lo + len \div 2 - 1, lo + len \div 2,
      lo + len - 1, lo + len, lo + len + 1 }

SamplePositions(b) == SampleCoords(b.x, b.w) \X SampleCoords(b.y, b.h)

\* the node the last insert ended in (in the tree as it was before the call)
LastTarget ==
    InsertTarget(prevTree, Root, inserted[Len(inserted)], edgeInclusive).node

\* the query circle overlaps the boundary of node n and of all its ancestors,
\* so query descends to n
Reaches(c, n) ==
    \A k \in 0 .. Len(n) : OverlapsRect(c, tree[SubSeq(n, 1, k)].boundary)

---------------------------------------------------------------------------
(* C1 *)

AllInsertedInsideRoot ==
    \A k \in 1 .. Len(inserted) :
        RectContains(RootBoundary, inserted[k].pos, edgeInclusive)

\* C1: with capacity >= 1 and at most capacity inserts into a fresh tree, all
\* inside the root boundary, a query whose circle covers the root boundary
\* returns exactly the multiset of inserted points.
C1_Containment ==
    ( /\ tree # NoTree
      /\ range # NoRange
      /\ tree[Root].capacity >= 1
      /\ Len(inserted) <= tree[Root].capacity
      /\ AllInsertedInsideRoot
      /\ Covers(range, RootBoundary) )
    => SameMultiset(res, inserted)

C1_Witness ==
    /\ tree # NoTree
    /\ range # NoRange
    /\ tree[Root].capacity = 2
    /\ Len(inserted) = 2
    /\ inserted[1] = inserted[2]
    /\ AllInsertedInsideRoot
    /\ Covers(range, RootBoundary)
    /\ Len(res) = 2

---------------------------------------------------------------------------
(* C2 *)

\* C2: every point a query returns lies inside the query circle, for trees
\* with subdivided nodes as for leaves.
C2_PruningCorrect ==
    range # NoRange =>
        \A k \in 1 .. Len(res) :
            (res[k].pos[1] - range.x) * (res[k].pos[1] - range.x)
              + (res[k].pos[2] - range.y) * (res[k].pos[2] - range.y)
              < range.r * range.r

\* a query on a subdivided tree that returns a point of the internal root
\* and a point of a child, and leaves out a stored point
C2_Witness ==
    /\ tree # NoTree
    /\ range # NoRange
    /\ tree[Root].is_full
    /\ \E k \in 1 .. Len(res) : res[k] \in Elems(tree[Root].data)
    /\ \E n \in Children(Root), k \in 1 .. Len(res) : res[k] \in Elems(tree[n].data)
    /\ Len(res) < StoredCount(tree)

---------------------------------------------------------------------------
(* C3 *)

\* C3: a capacity <= 0 is rejected at construction: no usable node exists
\* with such a capacity.
C3_ConfigRejected ==
    tree # NoTree => tree[Root].capacity >= 1

---------------------------------------------------------------------------
(* C4 *)

\* C4: every stored point lies inside the boundary of the node that stores
\* it, and an insert of a point outside the root boundary stores nothing
\* and leaves every node's items unchanged.
C4_StoredInsideBoundary ==
    /\ \A n \in DOMAIN tree :
          \A k \in 1 .. Len(tree[n].data) :
              RectContains(tree[n].boundary, tree[n].data[k].pos, edgeInclusive)
    /\ ( /\ lastOp \in {"push", "subdivide", "no_child"}
         /\ ~RectContains(RootBoundary, inserted[Len(inserted)].pos, edgeInclusive) )
       => \A n \in DOMAIN prevTree : tree[n].data = prevTree[n].data

---------------------------------------------------------------------------
(* C5 *)

\* C5: an insert that reaches a leaf at capacity creates the four children
\* as empty leaves, marks the node subdivided, moves none of the held items
\* and does not store the arriving point: the number of stored points is the
\* same before and after.
C5_SubdivideStoresNothing ==
    lastOp = "subdivide" =>
        /\ ~prevTree[LastTarget].is_full
        /\ Children(LastTarget) \cap DOMAIN prevTree = {}
        /\ tree[LastTarget].is_full
        /\ DOMAIN tree = DOMAIN prevTree \cup Children(LastTarget)
        /\ \A n \in Children(LastTarget) :
              IsEmptyLeaf(tree, n) /\ tree[n].capacity = prevTree[LastTarget].capacity
        /\ \A n \in DOMAIN prevTree : tree[n].data = prevTree[n].data
        /\ StoredCount(tree) = StoredCount(prevTree)

\* a leaf below the root, holding a point, has just been subdivided
C5_Witness ==
    /\ lastOp = "subdivide"
    /\ LastTarget # Root
    /\ prevTree[LastTarget].data # << >>
    /\ StoredCount(tree) >= 2

---------------------------------------------------------------------------
(* C6 *)

---------------------------------------------------------------------------
(* C7 *)

\* C7: the four children of every subdivided node tile its boundary: half
\* the width and height each, areas summing to the parent's, no two
\* overlapping in positive area, every position the parent contains
\* contained by a child.
C7_ChildrenTile ==
    \A n \in DOMAIN tree :
        tree[n].is_full =>
            LET b == tree[n].boundary IN
            /\ Children(n) \subseteq DOMAIN tree
            /\ \A c \in Children(n) :
                  /\ 2 * tree[c].boundary.w = b.w
                  /\ 2 * tree[c].boundary.h = b.h
            /\ Area(tree[northeast(n)].boundary) + Area(tree[northwest(n)].boundary)
                 + Area(tree[southeast(n)].boundary) + Area(tree[southwest(n)].boundary)
                 = Area(b)
            /\ \A c, d \in Children(n) :
                  c # d => IntersectionArea(tree[c].boundary, tree[d].boundary) = 0
            /\ \A pos \in SamplePositions(b) :
                  RectContains(b, pos, edgeInclusive) =>
                      \E c \in Children(n) :
                          RectContains(tree[c].boundary, pos, edgeInclusive)

\* a tree of capacity >= 1 subdivided at the root and again below it
C7_Witness ==
    /\ tree # NoTree
    /\ tree[Root].capacity >= 1
    /\ tree[Root].is_full
    /\ \E c \in Children(Root) : tree[c].is_full /\ Area(tree[c].boundary) > 0

---------------------------------------------------------------------------
(* C8 *)

\* C8: no node is populated on both sides: a subdivided node has empty
\* items, a node with items has no children.
C8_NeverBoth ==
    \A n \in DOMAIN tree :
        /\ tree[n].is_full => tree[n].data = << >>
        /\ tree[n].data # << >> => Children(n) \cap DOMAIN tree = {}

---------------------------------------------------------------------------
(* C9 *)

\* C9: for every point p the index was built from, the query check_overlap
\* makes for p returns p itself, so the result is never empty, and p is
\* tagged Overlapping exactly when another point is in the result.
C9_QueryReturnsSelf ==
    overlaps # << >> =>
        \A index \in 1 .. Len(points) :
            /\ Len(overlaps[index]) >= 1
            /\ \E k \in 1 .. Len(overlaps[index]) :
                  overlaps[index][k].pos = points[index].pos
            /\ points[index].color = "BLUE" <=> Len(overlaps[index]) > 1

---------------------------------------------------------------------------
(* C10 *)

\* C10: every frame runs reset, perturb, rebuild, classify in this order, and
\* the index classify queries is built from an empty root out of exactly the
\* positions perturb left: nothing of an earlier frame or of a replaced point
\* set is in it, and the point set is not replaced between perturb and
\* classify.
C10_FrameOrder ==
    /\ steps = SubSeq(<<"reset", "move_points", "build_quadtree",
                        "check_overlap">>, 1, Len(steps))
    /\ steps = <<"reset", "move_points", "build_quadtree">> =>
          /\ quadtree = InsertAll(
                 (Root :> NewNode(QUADTREE_CAPACITY,
                                  Rect(0, 0, ScreenWidth, ScreenHeight))),
                 snapshot, 1, edgeInclusive)
          /\ \A n \in DOMAIN quadtree :
                \A k \in 1 .. Len(quadtree[n].data) :
                    quadtree[n].data[k] \in Elems(snapshot)
          /\ [k \in 1 .. Len(points) |-> points[k].pos]
               = [k \in 1 .. Len(snapshot) |-> snapshot[k].pos]

\* check_overlap is about to run in a frame whose reset replaced the point
\* set, after an earlier frame classified a point as overlapping
C10_Witness ==
    /\ steps = <<"reset", "move_points", "build_quadtree">>
    /\ quadtree # NoTree
    /\ \E k \in 1 .. Len(points) : points[k].color = "BLUE"
    /\ \E k \in 1 .. Len(points) : points[k].color = "RED"

===========================================================================
